---- MODULE Spec2Model ----
(***************************************************************************)
(* Model of the decision-boundary animation controller of app.js: the     *)
(* weight-sequence loader, the step / animate / reset handlers, the        *)
(* interval timer, the regenerate handler (both variants found in the      *)
(* repository) and the boundary geometry.                                  *)
(*                                                                         *)
(* Numbers.  A weight is a decimal m * 10^e kept as the record             *)
(* [tok |-> "num", m |-> m, e |-> e], so that the 1e-12 threshold of the   *)
(* geometry is a real comparison.  Plot coordinates are exact rationals    *)
(* [n |-> numerator, d |-> denominator] in lowest terms with d > 0; the    *)
(* sign of a zero and floating-point rounding are not modelled.            *)
(*                                                                         *)
(* Dataset.  generateData and the min/max/padding arithmetic of the chart  *)
(* are abstracted to their result, the four axis bounds, drawn from        *)
(* AxisBounds.                                                             *)
(*                                                                         *)
(* Handlers.  Each action is one run of an event handler, to completion    *)
(* (the page is single-threaded).  The handlers carry their own guards and *)
(* are taken to be dispatchable in every state, whatever the disabled flag *)
(* of their button.  The page markup is not part of the sources: the       *)
(* readout and the flags start at any value, the speed input at its        *)
(* designed default.  Button captions are not modelled.  A timer callback  *)
(* runs only for an interval that is scheduled and not yet cleared.        *)
(***************************************************************************)
EXTENDS Integers, Sequences, FiniteSets, TLC

VARIABLES
    build,          \* which variant of the regenerate handler is deployed
    scales,         \* chart.options.scales: x.min, x.max, y.min, y.max
    currentSeed,    \* let currentSeed
    nRegens,        \* number of regenerate events so far (bounds the run)
    WEIGHT_STEPS,   \* let WEIGHT_STEPS
    stepIndex,      \* let stepIndex (the cursor)
    animTimer,      \* let animTimer (Null or an interval handle)
    timers,         \* the host's scheduled, not yet cleared interval timers
    nextTimerId,    \* the host's next interval handle
    lineData,       \* chart.data.datasets[2].data
    lineLabel,      \* chart.data.datasets[2].label
    lastEvent,      \* history: the handler that ran last and what it did
    wasRunning,     \* history: a timer was scheduled when that handler began
    loadedText,     \* the textarea content the last load parsed (in
                    \* ParseSpec: the content the load is about to parse)
    stepsSinceLoad, \* history: step() calls since the last load, -1 when
                    \* another event came in between (or the count is capped)
    ui,             \* the status readout and the disabled flags of the
                    \* animate, step and reset buttons
    speedRange,     \* the value of the speedRange input
    intervalOf,     \* the host's delay of every interval timer created
    runs,           \* the calls of generateData under way (GenSpec)
    genSeed         \* the seed of the last generateData call of the page

vars == <<build, scales, currentSeed, nRegens, WEIGHT_STEPS, stepIndex,
          animTimer, timers, nextTimerId, lineData, lineLabel, lastEvent,
          wasRunning, loadedText, stepsSinceLoad, ui, speedRange,
          intervalOf, runs, genSeed>>

----------------------------------------------------------------------------
(* Bounds of the model *)

MaxLines == 2

MaxTimers == 2

MaxRegens == 1

(* Program constants *)

Null == 0

InitialSeed == 123

LcgMul == 9301

LcgInc == 49297

LcgMod == 233280

EpsExp == -12

----------------------------------------------------------------------------
(* Numbers *)

Abs(n) == IF n < 0 THEN -n ELSE n

MinOf(a, b) == IF a < b THEN a ELSE b

RECURSIVE Pow10(_)
Pow10(k) == IF k <= 0 THEN 1 ELSE 10 * Pow10(k - 1)

RECURSIVE Gcd(_, _)
Gcd(a, b) == IF b = 0 THEN a ELSE Gcd(b, a % b)

Num(mant, exp) == [tok |-> "num", m |-> mant, e |-> exp]

NaN == [tok |-> "NaN", m |-> 0, e |-> 0]

Str(s) == [tok |-> s, m |-> 0, e |-> 0]

\* the value Infinity
Infinity == [tok |-> "Infinity", m |-> 0, e |-> 0]

\* the field "<number><text>", as in "5abc"
NumJunk(mant, exp) == [tok |-> "numjunk", m |-> mant, e |-> exp]

\* Number.isFinite
IsFinite(v) == v.tok = "num"

\* the rational n/d in lowest terms, denominator positive
Rat(n, d) ==
    LET g == Gcd(Abs(n), Abs(d))
        s == IF d < 0 THEN -1 ELSE 1
    IN  [n |-> (s * n) \div g, d |-> (s * d) \div g]

Zero == Rat(0, 1)

NumAdd(a, b) ==
    LET e == MinOf(a.e, b.e)
    IN  Num(a.m * Pow10(a.e - e) + b.m * Pow10(b.e - e), e)

NumTimesInt(a, k) == Num(a.m * k, a.e)

NumNeg(a) == Num(-a.m, a.e)

\* a / b for b # 0, as a rational
NumDiv(a, b) ==
    IF a.e >= b.e THEN Rat(a.m * Pow10(a.e - b.e), b.m)
    ELSE Rat(a.m, b.m * Pow10(b.e - a.e))

\* Math.abs(w) > 1e-12
AbsGtEps(w) ==
    IF w.m = 0 THEN FALSE
    ELSE IF w.e > EpsExp THEN TRUE
    ELSE Abs(w.m) > Pow10(EpsExp - w.e)

----------------------------------------------------------------------------
(* Inputs *)

Builds == {"app.js", "part_000"}

\* axis bounds a generated dataset can give the chart (min < max on each axis)
AxisBounds ==
    { [xMin |-> 0, xMax |-> 10, yMin |-> 0, yMax |-> 10],
      [xMin |-> -2, xMax |-> 8, yMin |-> -1, yMax |-> 12] }

\* a text line after split(/\s*,\s*/): its fields; the blank line has none
HeaderLine == <<Str("w0"), Str("w1"), Str("w2")>>

BlankLine == <<>>

BadLine == <<Str("bad"), Str("row")>>

SlopedRow == <<Num(-4, 0), Num(1, 0), Num(2, 0)>>

VerticalRow == <<Num(-2, 0), Num(1, 0), Num(0, 0)>>

DegenerateRow == <<Num(0, 0), Num(0, 0), Num(0, 0)>>

LineKinds ==
    {HeaderLine, BlankLine, BadLine, SlopedRow, VerticalRow, DegenerateRow}

SeqUpTo(S, n) == UNION {[1..k -> S] : k \in 0..n}

\* contents of the weightsCsv textarea the user may have typed
Texts == SeqUpTo(LineKinds, MaxLines)

\* further lines for the parser on its own: "1,2,3,W0 W1 W2" (a header when
\* it comes first, a row elsewhere), "1,2,3,w0 w1" (a row everywhere),
\* "4,5abc,6,bad" (parseFloat reads 5), "1,Infinity,3", "1,2,bad"
NumsThenNames == <<Num(1, 0), Num(2, 0), Num(3, 0), Str("W0 W1 W2")>>

NumsThenTwoNames == <<Num(1, 0), Num(2, 0), Num(3, 0), Str("w0 w1")>>

JunkRow == <<Num(4, 0), NumJunk(5, 0), Num(6, 0), Str("bad")>>

InfRow == <<Num(1, 0), Str("Infinity"), Num(3, 0)>>

NaNRow == <<Num(1, 0), Num(2, 0), Str("bad")>>

ParseLineKinds ==
    {HeaderLine, BlankLine, BadLine, SlopedRow, NumsThenNames,
     NumsThenTwoNames, JunkRow, InfRow, NaNRow}

ParseTexts == SeqUpTo(ParseLineKinds, MaxLines + 2)

----------------------------------------------------------------------------
(* parseWeightsCsv *)

\* a parse that takes the whole field or nothing, as Number() does
ParseFloatStrict(f) ==
    IF f.tok = "num" THEN Num(f.m, f.e)
    ELSE IF f.tok = "Infinity" THEN Infinity
    ELSE NaN

\* parseFloat of one field: a number, also when text follows it ("5abc"
\* gives 5); Infinity for "Infinity"; NaN otherwise
ParseFloat(f) ==
    IF f.tok \in {"num", "numjunk"} THEN Num(f.m, f.e)
    ELSE IF f.tok = "Infinity" THEN Infinity
    ELSE NaN

\* toLowerCase of one field
ToLowerCase(f) ==
    IF f.tok = "W0 W1 W2" THEN [f EXCEPT !.tok = "w0 w1 w2"] ELSE f

\* the field's text has name as a substring
FieldIncludes(f, name) ==
    \/ f.tok = name
    \/ f.tok = "w0 w1 w2" /\ name \in {"w0", "w1", "w2"}
    \/ f.tok = "w0 w1" /\ name \in {"w0", "w1"}

\* first.includes(name)
Includes(line, name) == \E i \in 1..Len(line) : FieldIncludes(line[i], name)

RECURSIVE ParseRows(_, _)
ParseRows(lines, i) ==
    IF i > Len(lines) THEN <<>>
    ELSE LET parts == lines[i]
         IN  IF Len(parts) < 3 THEN ParseRows(lines, i + 1)
             ELSE LET w0 == ParseFloat(parts[1])
                      w1 == ParseFloat(parts[2])
                      w2 == ParseFloat(parts[3])
                  IN  IF IsFinite(w0) /\ IsFinite(w1) /\ IsFinite(w2)
                      THEN <<[w0 |-> w0, w1 |-> w1, w2 |-> w2]>>
                               \o ParseRows(lines, i + 1)
                      ELSE ParseRows(lines, i + 1)

parseWeightsCsv(text) ==
    LET lines == SelectSeq(text, LAMBDA l : Len(l) > 0)
    IN  IF Len(lines) = 0 THEN <<>>
        ELSE LET first == [i \in 1..Len(lines[1]) |->
                               ToLowerCase(lines[1][i])]
                 startIdx == IF Includes(first, "w0") /\ Includes(first, "w1")
                                 /\ Includes(first, "w2")
                             THEN 2 ELSE 1
             IN  ParseRows(lines, startIdx)

\* every sequence the parser returns on the texts of the model
ParseResults == {parseWeightsCsv(t) : t \in Texts}

\* one text for each of them: the texts the load handler is run on (two texts
\* that parse alike lead the handler to the same state)
LoadTexts ==
    {CHOOSE t \in Texts : parseWeightsCsv(t) = r : r \in ParseResults}

----------------------------------------------------------------------------
(* Boundary geometry *)

Point(px, py) == [x |-> px, y |-> py]

\* the data setBaselineLine gives the line series on scales sc
setBaselineLine(sc) ==
    <<Point(Rat(sc.xMin, 1), Zero), Point(Rat(sc.xMax, 1), Zero)>>

\* setDecisionLineFromWeights falling back to the baseline segment when
\* neither weight passes the threshold
setDecisionLineDegenerateAsBaseline(w, sc) ==
    IF IsFinite(w.w0) /\ IsFinite(w.w1) /\ IsFinite(w.w2)
    THEN IF AbsGtEps(w.w2)
         THEN <<Point(Rat(sc.xMin, 1),
                      NumDiv(NumNeg(NumAdd(w.w0, NumTimesInt(w.w1, sc.xMin))),
                             w.w2)),
                Point(Rat(sc.xMax, 1),
                      NumDiv(NumNeg(NumAdd(w.w0, NumTimesInt(w.w1, sc.xMax))),
                             w.w2))>>
         ELSE IF AbsGtEps(w.w1)
              THEN LET xConst == NumDiv(NumNeg(w.w0), w.w1)
                   IN  <<Point(xConst, Rat(sc.yMin, 1)),
                         Point(xConst, Rat(sc.yMax, 1))>>
              ELSE setBaselineLine(sc)
    ELSE <<>>

\* setDecisionLineFromWeights with the w1 test put before the w2 test
setDecisionLineVerticalFirst(w, sc) ==
    IF IsFinite(w.w0) /\ IsFinite(w.w1) /\ IsFinite(w.w2)
    THEN IF AbsGtEps(w.w1)
         THEN LET xConst == NumDiv(NumNeg(w.w0), w.w1)
              IN  <<Point(xConst, Rat(sc.yMin, 1)),
                    Point(xConst, Rat(sc.yMax, 1))>>
         ELSE IF AbsGtEps(w.w2)
              THEN <<Point(Rat(sc.xMin, 1),
                           NumDiv(NumNeg(NumAdd(w.w0,
                                      NumTimesInt(w.w1, sc.xMin))), w.w2)),
                     Point(Rat(sc.xMax, 1),
                           NumDiv(NumNeg(NumAdd(w.w0,
                                      NumTimesInt(w.w1, sc.xMax))), w.w2))>>
              ELSE <<>>
    ELSE <<>>

\* the data setDecisionLineFromWeights gives the line series on scales sc
setDecisionLineFromWeights(w, sc) ==
    IF IsFinite(w.w0) /\ IsFinite(w.w1) /\ IsFinite(w.w2)
    THEN IF AbsGtEps(w.w2)
         THEN <<Point(Rat(sc.xMin, 1),
                      NumDiv(NumNeg(NumAdd(w.w0, NumTimesInt(w.w1, sc.xMin))),
                             w.w2)),
                Point(Rat(sc.xMax, 1),
                      NumDiv(NumNeg(NumAdd(w.w0, NumTimesInt(w.w1, sc.xMax))),
                             w.w2))>>
         ELSE IF AbsGtEps(w.w1)
              THEN LET xConst == NumDiv(NumNeg(w.w0), w.w1)
                   IN  <<Point(xConst, Rat(sc.yMin, 1)),
                         Point(xConst, Rat(sc.yMax, 1))>>
              ELSE <<>>
    ELSE <<>>

BaselineLabel == "x2 = 0"

DecisionLabel == "Decision boundary"

----------------------------------------------------------------------------
(* Status readout and button flags *)

\* updateAnimStatus() leaving the step button enabled at the last index
updateAnimStatusStepEnabled(ws, i) ==
    LET loaded == Len(ws)
    IN  IF loaded = 0
        THEN [status |-> [text |-> "steps loaded", loaded |-> 0, at |-> 0],
              animateDisabled |-> TRUE,
              stepDisabled |-> TRUE,
              resetDisabled |-> TRUE]
        ELSE [status |-> [text |-> "steps loaded, at",
                          loaded |-> loaded,
                          at |-> IF i < 0 THEN 0 ELSE i + 1],
              animateDisabled |-> FALSE,
              stepDisabled |-> FALSE,
              resetDisabled |-> FALSE]

\* what updateAnimStatus() writes for the sequence ws and the cursor i: the
\* readout "0 steps loaded" or "<loaded> steps loaded, at <at>/<loaded>"
updateAnimStatus(ws, i) ==
    LET loaded == Len(ws)
    IN  IF loaded = 0
        THEN [status |-> [text |-> "steps loaded", loaded |-> 0, at |-> 0],
              animateDisabled |-> TRUE,
              stepDisabled |-> TRUE,
              resetDisabled |-> TRUE]
        ELSE [status |-> [text |-> "steps loaded, at",
                          loaded |-> loaded,
                          at |-> IF i < 0 THEN 0 ELSE i + 1],
              animateDisabled |-> FALSE,
              stepDisabled |-> (i >= loaded - 1),
              resetDisabled |-> FALSE]

\* a page as served: no handler has written the readout, the buttons carry
\* the flags a, b, c
MarkupUi(a, b, c) ==
    [status |-> [text |-> "markup", loaded |-> 0, at |-> 0],
     animateDisabled |-> a, stepDisabled |-> b, resetDisabled |-> c]

InitialUi == {MarkupUi(a, b, c) : a \in BOOLEAN, b \in BOOLEAN, c \in BOOLEAN}

----------------------------------------------------------------------------
(* Animation speed *)

DefaultInterval == 300

\* the value of the speed input of the page as served
DefaultSpeed == Num(300, 0)

\* values the user can give the speed input: "300", "100", "0", "abc",
\* "250.7"
SpeedValues == {Num(300, 0), Num(100, 0), Num(0, 0), Str("abc"), Num(2507, -1)}

\* parseInt(v, 10) of a field holding no sign
ParseInt(v) ==
    IF v.tok \in {"num", "numjunk"}
    THEN IF v.e >= 0 THEN Num(v.m * Pow10(v.e), 0)
         ELSE Num(v.m \div Pow10(-v.e), 0)
    ELSE NaN

\* the speed without the || 300 fallback: setInterval takes NaN as 0
speedNoFallback(v) ==
    LET parsed == ParseInt(v)
    IN  IF parsed.tok = "NaN" THEN 0 ELSE parsed.m

\* parseInt(speedRange.value, 10) || 300
speed(v) ==
    LET parsed == ParseInt(v)
    IN  IF parsed.tok = "NaN" \/ parsed.m = 0 THEN DefaultInterval
        ELSE parsed.m

----------------------------------------------------------------------------
(* Dataset generator *)

(* A 32-bit word is held as two 16-bit limbs [h, l], so that no product    *)
(* passes 2^31.  The counter t of mulberry32 is a double that the code     *)
(* never wraps: its high limb is left unbounded here, and only the bitwise *)
(* operators take it modulo 2^32.  A standard normal draw is held as the   *)
(* pair of uniforms (u, v) it is computed from, a coordinate as the draw   *)
(* it is a fixed function of.                                              *)

Limb == 256 * 256

Word(h, l) == [h |-> h, l |-> l]

RECURSIVE Xor16(_, _, _)
Xor16(a, b, k) ==
    IF k = 0 THEN 0
    ELSE ((a + b) % 2) + 2 * Xor16(a \div 2, b \div 2, k - 1)

RECURSIVE Or16(_, _, _)
Or16(a, b, k) ==
    IF k = 0 THEN 0
    ELSE (IF a % 2 = 1 \/ b % 2 = 1 THEN 1 ELSE 0)
         + 2 * Or16(a \div 2, b \div 2, k - 1)

\* a ^ b
Xor32(a, b) == Word(Xor16(a.h, b.h, 16), Xor16(a.l, b.l, 16))

\* a | b
Or32(a, b) == Word(Or16(a.h, b.h, 16), Or16(a.l, b.l, 16))

\* a >>> k, for 0 < k < 16
Shr32(a, k) ==
    Word(a.h \div 2^k, (a.l \div 2^k) + (a.h % 2^k) * 2^(16 - k))

\* the 32-bit product of two 16-bit limbs
Mul16(x, y) ==
    LET p1  == x * (y % 256)
        p2  == x * (y \div 256)
        low == p1 + (p2 % 256) * 256
    IN  Word((low \div Limb) + (p2 \div 256), low % Limb)

\* Math.imul(a, b)
Imul32(a, b) ==
    LET ll == Mul16(a.l, b.l)
    IN  Word((ll.h + Mul16(a.h, b.l).l + Mul16(a.l, b.h).l) % Limb, ll.l)

\* the 32 bits of a + b
Add32(a, b) ==
    LET l == a.l + b.l
    IN  Word((a.h + b.h + (l \div Limb)) % Limb, l % Limb)

\* ToInt32(t) as a bit pattern
ToInt32(t) == Word(t.h % Limb, t.l)

\* 0x6D2B79F5
IncHi == 27947
IncLo == 31221

\* mulberry32(seed): the counter starts at seed >>> 0
mulberry32(seed) == Word((seed \div Limb) % Limb, seed % Limb)

\* one call of the function mulberry32 returns, the counter being t: the
\* new counter and the numerator of the fraction returned
NextRandom(t) ==
    LET l   == t.l + IncLo
        t1  == Word(t.h + IncHi + (l \div Limb), l % Limb)
        x   == ToInt32(t1)
        r   == Imul32(Xor32(x, Shr32(x, 15)), Or32(Word(0, 1), x))
        r2  == Xor32(r, Add32(r, Imul32(Xor32(r, Shr32(r, 7)),
                                        Or32(Word(0, 61), r))))
    IN  [t |-> t1, out |-> Xor32(r2, Shr32(r2, 14))]

\* while (u === 0) u = rng()
RECURSIVE DrawNonZero(_)
DrawNonZero(t) ==
    LET d == NextRandom(t)
    IN  IF d.out = Word(0, 0) THEN DrawNonZero(d.t) ELSE d

\* randn(rng): the counter after the call and the draw
randn(t) ==
    LET du == DrawNonZero(t)
        dv == DrawNonZero(du.t)
    IN  [t |-> dv.t, z |-> [u |-> du.out, v |-> dv.out]]

\* the label with the comparison against the integer half of n
LabelOfFloor(i, n) == IF i < n \div 2 THEN 0 ELSE 1

\* i < n / 2 ? 0 : 1
LabelOf(i, n) == IF 2 * i < n THEN 0 ELSE 1

MaxN == 3

\* the n and the seeds generateData is called with
GenSizes == -1..MaxN
GenSeeds == {1, 42, 123}

\* two calls of generateData
Runs == {"A", "B"}

\* both calls sharing the generator of the first
RngOwnerShared(r) == "A"

\* the call whose closure the generator of call r is
RngOwner(r) == r

NoRuns == <<>>

----------------------------------------------------------------------------
(* State machine *)

Init ==
    /\ build \in Builds
    /\ scales \in AxisBounds
    /\ currentSeed = InitialSeed
    /\ genSeed = currentSeed
    /\ nRegens = 0
    /\ WEIGHT_STEPS = <<>>
    /\ stepIndex = -1
    /\ animTimer = Null
    /\ timers = {}
    /\ nextTimerId = 1
    /\ lineData = setBaselineLine(scales)
    /\ lineLabel = BaselineLabel
    /\ lastEvent = "init"
    /\ wasRunning = FALSE
    /\ loadedText = <<>>
    /\ stepsSinceLoad = -1
    /\ ui \in InitialUi
    /\ speedRange = DefaultSpeed
    /\ intervalOf = <<>>
    /\ runs = NoRuns

\* the step counter of the history stops counting past this
StepCap == MaxLines + 2

\* clearInterval(h): the host forgets timer h
clearInterval(ts, h) == ts \ {h}

\* stopAnimation() without its clearInterval
stopAnimationNoClear ==
    /\ timers' = timers
    /\ animTimer' = Null
    /\ UNCHANGED intervalOf

\* stopAnimation()
stopAnimation ==
    /\ timers' = IF animTimer # Null THEN clearInterval(timers, animTimer)
                 ELSE timers
    /\ animTimer' = Null
    /\ UNCHANGED intervalOf

\* the guard with the bound off by one
CanAdvanceShort(i, n) == i < n - 2

\* the guard of the step handler and of the timer callback:
\* stepIndex < WEIGHT_STEPS.length - 1
CanAdvance(i, n) == i < n - 1

\* history kept by every handler but the load
History(e) ==
    /\ lastEvent' = e
    /\ wasRunning' = (animTimer # Null)
    /\ UNCHANGED loadedText

\* the load handler without stepIndex = -1
LoadWeightsClickKeepsCursor(txt) ==
    /\ stopAnimation
    /\ WEIGHT_STEPS' = parseWeightsCsv(txt)
    /\ stepIndex' = stepIndex
    /\ lineData' = setBaselineLine(scales)
    /\ lineLabel' = BaselineLabel
    /\ lastEvent' = "load"
    /\ wasRunning' = (animTimer # Null)
    /\ loadedText' = txt
    /\ ui' = updateAnimStatus(WEIGHT_STEPS', stepIndex')
    /\ stepsSinceLoad' = 0
    /\ UNCHANGED <<runs, genSeed, speedRange, build, scales, currentSeed, nRegens, nextTimerId>>

\* the load handler without stopAnimation()
LoadWeightsClickNoStop(txt) ==
    /\ WEIGHT_STEPS' = parseWeightsCsv(txt)
    /\ stepIndex' = -1
    /\ lineData' = setBaselineLine(scales)
    /\ lineLabel' = BaselineLabel
    /\ lastEvent' = "load"
    /\ wasRunning' = (animTimer # Null)
    /\ loadedText' = txt
    /\ ui' = updateAnimStatus(WEIGHT_STEPS', stepIndex')
    /\ stepsSinceLoad' = 0
    /\ UNCHANGED <<runs, genSeed, speedRange, build, scales, currentSeed, nRegens, nextTimerId,
                   animTimer, timers, intervalOf>>

\* loadWeightsBtn click, the textarea holding txt
LoadWeightsClick(txt) ==
    /\ stopAnimation
    /\ WEIGHT_STEPS' = parseWeightsCsv(txt)
    /\ stepIndex' = -1
    /\ lineData' = setBaselineLine(scales)
    /\ lineLabel' = BaselineLabel
    /\ lastEvent' = "load"
    /\ wasRunning' = (animTimer # Null)
    /\ loadedText' = txt
    /\ ui' = updateAnimStatus(WEIGHT_STEPS', stepIndex')
    /\ stepsSinceLoad' = 0
    /\ UNCHANGED <<runs, genSeed, speedRange, build, scales, currentSeed, nRegens, nextTimerId>>

\* the step handler stopping a running animation when it advances
StepClickStopsTimer ==
    /\ stepsSinceLoad' = IF stepsSinceLoad >= 0 /\ stepsSinceLoad < StepCap
                         THEN stepsSinceLoad + 1 ELSE -1
    /\ IF Len(WEIGHT_STEPS) = 0
       THEN /\ History("stepEmpty")
            /\ UNCHANGED <<stepIndex, lineData, lineLabel, ui, animTimer,
                           timers, intervalOf>>
       ELSE IF CanAdvance(stepIndex, Len(WEIGHT_STEPS))
            THEN /\ stopAnimation
                 /\ stepIndex' = stepIndex + 1
                 /\ lineData' = setDecisionLineFromWeights(
                                    WEIGHT_STEPS[stepIndex' + 1], scales)
                 /\ lineLabel' = DecisionLabel
                 /\ History("step")
                 /\ ui' = updateAnimStatus(WEIGHT_STEPS, stepIndex')
            ELSE /\ History("stepAtEnd")
                 /\ UNCHANGED <<stepIndex, lineData, lineLabel, ui, animTimer,
                                timers, intervalOf>>
    /\ UNCHANGED <<runs, genSeed, speedRange, build, scales, currentSeed, nRegens,
                   WEIGHT_STEPS, nextTimerId>>

\* stepBtn click
StepClick ==
    /\ stepsSinceLoad' = IF stepsSinceLoad >= 0 /\ stepsSinceLoad < StepCap
                         THEN stepsSinceLoad + 1 ELSE -1
    /\ IF Len(WEIGHT_STEPS) = 0
       THEN /\ History("stepEmpty")
            /\ UNCHANGED <<stepIndex, lineData, lineLabel, ui>>
       ELSE IF CanAdvance(stepIndex, Len(WEIGHT_STEPS))
            THEN /\ stepIndex' = stepIndex + 1
                 /\ lineData' = setDecisionLineFromWeights(
                                    WEIGHT_STEPS[stepIndex' + 1], scales)
                 /\ lineLabel' = DecisionLabel
                 /\ History("step")
                 /\ ui' = updateAnimStatus(WEIGHT_STEPS, stepIndex')
            ELSE /\ History("stepAtEnd")
                 /\ UNCHANGED <<stepIndex, lineData, lineLabel, ui>>
    /\ UNCHANGED <<runs, genSeed, speedRange, build, scales, currentSeed, nRegens, WEIGHT_STEPS,
                   animTimer, timers, intervalOf, nextTimerId>>

\* the animate handler without the animTimer !== null test: every click
\* schedules a timer
AnimateClickAlwaysStarts ==
    /\ IF Len(WEIGHT_STEPS) = 0
       THEN /\ History("animateEmpty")
            /\ UNCHANGED <<animTimer, timers, intervalOf, nextTimerId, ui>>
       ELSE /\ nextTimerId <= MaxTimers
            /\ animTimer' = nextTimerId
            /\ timers' = timers \cup {nextTimerId}
            /\ intervalOf' = [h \in 1..nextTimerId |->
                                  IF h = nextTimerId THEN speed(speedRange)
                                  ELSE intervalOf[h]]
            /\ nextTimerId' = nextTimerId + 1
            /\ History("start")
            /\ UNCHANGED ui
    /\ stepsSinceLoad' = -1
    /\ UNCHANGED <<runs, genSeed, speedRange, build, scales, currentSeed, nRegens, WEIGHT_STEPS,
                   stepIndex, lineData, lineLabel>>

\* the animate handler without the WEIGHT_STEPS.length === 0 return
AnimateClickNoEmptyCheck ==
    /\ IF animTimer # Null
       THEN /\ stopAnimation
            /\ History("pause")
            /\ ui' = updateAnimStatus(WEIGHT_STEPS, stepIndex)
            /\ UNCHANGED nextTimerId
       ELSE /\ nextTimerId <= MaxTimers
            /\ animTimer' = nextTimerId
            /\ timers' = timers \cup {nextTimerId}
            /\ intervalOf' = [h \in 1..nextTimerId |->
                                  IF h = nextTimerId THEN speed(speedRange)
                                  ELSE intervalOf[h]]
            /\ nextTimerId' = nextTimerId + 1
            /\ History("start")
            /\ UNCHANGED ui
    /\ stepsSinceLoad' = -1
    /\ UNCHANGED <<runs, genSeed, speedRange, build, scales, currentSeed, nRegens,
                   WEIGHT_STEPS, stepIndex, lineData, lineLabel>>

\* animateBtn click
AnimateClick ==
    /\ IF Len(WEIGHT_STEPS) = 0
       THEN /\ History("animateEmpty")
            /\ UNCHANGED <<animTimer, timers, intervalOf, nextTimerId, ui>>
       ELSE IF animTimer # Null
            THEN /\ stopAnimation
                 /\ History("pause")
                 /\ ui' = updateAnimStatus(WEIGHT_STEPS, stepIndex)
                 /\ UNCHANGED nextTimerId
            ELSE /\ nextTimerId <= MaxTimers
                 /\ animTimer' = nextTimerId
                 /\ timers' = timers \cup {nextTimerId}
                 /\ intervalOf' = [h \in 1..nextTimerId |->
                                       IF h = nextTimerId THEN speed(speedRange)
                                       ELSE intervalOf[h]]
                 /\ nextTimerId' = nextTimerId + 1
                 /\ History("start")
                 /\ UNCHANGED ui
    /\ stepsSinceLoad' = -1
    /\ UNCHANGED <<runs, genSeed, speedRange, build, scales, currentSeed, nRegens, WEIGHT_STEPS,
                   stepIndex, lineData, lineLabel>>

\* the timer callback without stopAnimation() in its else branch
TimerTickNeverStops(h) ==
    /\ h \in timers
    /\ IF CanAdvance(stepIndex, Len(WEIGHT_STEPS))
       THEN /\ stepIndex' = stepIndex + 1
            /\ lineData' = setDecisionLineFromWeights(
                               WEIGHT_STEPS[stepIndex' + 1], scales)
            /\ lineLabel' = DecisionLabel
            /\ History("tick")
            /\ ui' = updateAnimStatus(WEIGHT_STEPS, stepIndex')
       ELSE /\ History("tickStop")
            /\ ui' = updateAnimStatus(WEIGHT_STEPS, stepIndex)
            /\ UNCHANGED <<stepIndex, lineData, lineLabel>>
    /\ stepsSinceLoad' = -1
    /\ UNCHANGED <<runs, genSeed, speedRange, build, scales, currentSeed, nRegens,
                   WEIGHT_STEPS, nextTimerId, animTimer, timers, intervalOf>>

\* the timer callback cancelling the timer as soon as the cursor arrives at
\* the last index
TimerTickStopsOnArrival(h) ==
    /\ h \in timers
    /\ IF CanAdvance(stepIndex, Len(WEIGHT_STEPS))
       THEN /\ stepIndex' = stepIndex + 1
            /\ lineData' = setDecisionLineFromWeights(
                               WEIGHT_STEPS[stepIndex' + 1], scales)
            /\ lineLabel' = DecisionLabel
            /\ History("tick")
            /\ ui' = updateAnimStatus(WEIGHT_STEPS, stepIndex')
            /\ IF stepIndex' = Len(WEIGHT_STEPS) - 1
               THEN stopAnimation
               ELSE UNCHANGED <<animTimer, timers, intervalOf>>
       ELSE /\ stopAnimation
            /\ History("tickStop")
            /\ ui' = updateAnimStatus(WEIGHT_STEPS, stepIndex)
            /\ UNCHANGED <<stepIndex, lineData, lineLabel>>
    /\ stepsSinceLoad' = -1
    /\ UNCHANGED <<runs, genSeed, speedRange, build, scales, currentSeed, nRegens, WEIGHT_STEPS,
                   nextTimerId>>

\* the setInterval callback, run for the live timer h
TimerTick(h) ==
    /\ h \in timers
    /\ IF CanAdvance(stepIndex, Len(WEIGHT_STEPS))
       THEN /\ stepIndex' = stepIndex + 1
            /\ lineData' = setDecisionLineFromWeights(
                               WEIGHT_STEPS[stepIndex' + 1], scales)
            /\ lineLabel' = DecisionLabel
            /\ History("tick")
            /\ ui' = updateAnimStatus(WEIGHT_STEPS, stepIndex')
            /\ UNCHANGED <<animTimer, timers, intervalOf>>
       ELSE /\ stopAnimation
            /\ History("tickStop")
            /\ ui' = updateAnimStatus(WEIGHT_STEPS, stepIndex)
            /\ UNCHANGED <<stepIndex, lineData, lineLabel>>
    /\ stepsSinceLoad' = -1
    /\ UNCHANGED <<runs, genSeed, speedRange, build, scales, currentSeed, nRegens, WEIGHT_STEPS,
                   nextTimerId>>

\* the reset handler without setBaselineLine()
ResetClickKeepsLine ==
    /\ stopAnimation
    /\ stepIndex' = -1
    /\ History("reset")
    /\ ui' = updateAnimStatus(WEIGHT_STEPS, stepIndex')
    /\ stepsSinceLoad' = -1
    /\ UNCHANGED <<runs, genSeed, speedRange, build, scales, currentSeed, nRegens, WEIGHT_STEPS,
                   nextTimerId, lineData, lineLabel>>

\* resetAnimBtn click
ResetClick ==
    /\ stopAnimation
    /\ stepIndex' = -1
    /\ lineData' = setBaselineLine(scales)
    /\ lineLabel' = BaselineLabel
    /\ History("reset")
    /\ ui' = updateAnimStatus(WEIGHT_STEPS, stepIndex')
    /\ stepsSinceLoad' = -1
    /\ UNCHANGED <<runs, genSeed, speedRange, build, scales, currentSeed, nRegens, WEIGHT_STEPS,
                   nextTimerId>>

\* currentSeed = (currentSeed * 9301 + 49297) % 233280
\* currentSeed * 9301 + 49297, as a word of two 16-bit halves; the high
\* half is not reduced
LcgProduct(s) ==
    LET lo == (s % Limb) * LcgMul + LcgInc
    IN  Word((s \div Limb) * LcgMul + (lo \div Limb), lo % Limb)

\* the remainder of the word p by 233280
LcgRemainder(p) == ((((p.h * 256) % LcgMod) * 256) + p.l) % LcgMod

LcgStep(s) == LcgRemainder(LcgProduct(s))

\* the stored seed handed to the generator as it is
SeedAsStored(s) == s

\* currentSeed || 1
SeedOrOne(s) == IF s = 0 THEN 1 ELSE s

\* the regenerate handler of app.js without stepIndex = -1
RegenClickAppKeepsCursor(sc) ==
    /\ build = "app.js"
    /\ stopAnimation
    /\ stepIndex' = stepIndex
    /\ currentSeed' = LcgStep(currentSeed)
    /\ scales' = sc
    /\ lineData' = setBaselineLine(sc)
    /\ lineLabel' = BaselineLabel
    /\ UNCHANGED <<WEIGHT_STEPS, nextTimerId>>

\* regenBtn click of app.js, the new dataset giving the axis bounds sc
RegenClickApp(sc) ==
    /\ build = "app.js"
    /\ stopAnimation
    /\ stepIndex' = -1
    /\ currentSeed' = LcgStep(currentSeed)
    /\ scales' = sc
    /\ lineData' = setBaselineLine(sc)
    /\ lineLabel' = BaselineLabel
    /\ UNCHANGED <<WEIGHT_STEPS, nextTimerId>>

\* the regenerate handler of the other variant leaving the endpoints of a
\* loaded boundary as they were
RegenClickPart000Reuses(sc) ==
    /\ build = "part_000"
    /\ currentSeed' = LcgStep(currentSeed)
    /\ scales' = sc
    /\ IF Len(WEIGHT_STEPS) > 0 /\ stepIndex >= 0
       THEN UNCHANGED <<lineData, lineLabel>>
       ELSE /\ lineData' = <<Point(Rat(sc.xMin, 1), Zero),
                             Point(Rat(sc.xMax, 1), Zero)>>
            /\ lineLabel' = BaselineLabel
    /\ UNCHANGED <<WEIGHT_STEPS, stepIndex, animTimer, timers, intervalOf, nextTimerId>>

\* regenBtn click of the other variant
RegenClickPart000(sc) ==
    /\ build = "part_000"
    /\ currentSeed' = LcgStep(currentSeed)
    /\ scales' = sc
    /\ IF Len(WEIGHT_STEPS) > 0
       THEN IF stepIndex >= 0
            THEN /\ lineData' = setDecisionLineFromWeights(
                                    WEIGHT_STEPS[stepIndex + 1], sc)
                 /\ lineLabel' = DecisionLabel
            ELSE /\ lineData' = setBaselineLine(sc)
                 /\ lineLabel' = BaselineLabel
       ELSE /\ lineData' = <<Point(Rat(sc.xMin, 1), Zero),
                             Point(Rat(sc.xMax, 1), Zero)>>
            /\ UNCHANGED lineLabel
    /\ UNCHANGED <<WEIGHT_STEPS, stepIndex, animTimer, timers, intervalOf, nextTimerId>>

\* regenBtn click of either variant
Regenerate(sc) ==
    /\ \/ RegenClickApp(sc)
       \/ RegenClickPart000(sc)
    /\ genSeed' = SeedOrOne(currentSeed')
    /\ History("regen")
    /\ ui' = updateAnimStatus(WEIGHT_STEPS, stepIndex')
    /\ stepsSinceLoad' = -1
    /\ UNCHANGED <<build, runs, speedRange>>

\* regenBtn click, counted
RegenClick(sc) ==
    /\ nRegens < MaxRegens
    /\ nRegens' = nRegens + 1
    /\ Regenerate(sc)

\* what no call of generateData touches
controller ==
    <<build, scales, currentSeed, nRegens, WEIGHT_STEPS, stepIndex, animTimer,
      timers, nextTimerId, lineData, lineLabel, lastEvent, wasRunning,
      loadedText, stepsSinceLoad, ui, speedRange, intervalOf, genSeed>>

\* generateData({n, seed}) entered by call r: const rng = mulberry32(seed),
\* const data = [], let i = 0
GenCall(r) ==
    /\ runs[r].pc = "idle"
    /\ runs' = [runs EXCEPT ![r].pc = "loop",
                            ![r].i = 0,
                            ![r].data = <<>>,
                            ![RngOwner(r)].t = mulberry32(runs[r].seed)]
    /\ UNCHANGED controller

\* one test of i < n by call r, with the loop body or the return
GenLoop(r) ==
    /\ runs[r].pc = "loop"
    /\ IF runs[r].i < runs[r].n
       THEN LET y  == LabelOf(runs[r].i, runs[r].n)
                d1 == randn(runs[RngOwner(r)].t)
                d2 == randn(d1.t)
            IN  runs' = [runs EXCEPT
                            ![r].data = Append(@, [x1 |-> d1.z, x2 |-> d2.z,
                                                   y |-> y]),
                            ![r].i = @ + 1,
                            ![RngOwner(r)].t = d2.t]
       ELSE runs' = [runs EXCEPT ![r].pc = "done",
                                 ![r].outcome = "returned"]
    /\ UNCHANGED controller

Next ==
    \/ \E txt \in LoadTexts : LoadWeightsClick(txt)
    \/ StepClick
    \/ AnimateClick
    \/ \E h \in timers : TimerTick(h)
    \/ ResetClick
    \/ \E sc \in AxisBounds : RegenClick(sc)

Spec == Init /\ [][Next]_vars

----------------------------------------------------------------------------
(* The boundary geometry on its own: the step handler applies it to the      *)
(* single weight triple of a freshly loaded one-row text, the triple drawn   *)
(* from magnitudes on both sides of the 1e-12 threshold.                     *)

\* weights around the threshold: 0, 1e-13, -2e-13, 1e-12 (not above it, in
\* both spellings), -1.1e-12, -2e-12, 1e-11, -1.1e-11
SmallNums == {Num(m, e) : m \in {-11, -2, 0, 1, 10}, e \in {-13, -12}}

\* weights of ordinary size
UnitNums == {Num(m, 0) : m \in {-2, 0, 1}}

\* weights not above the threshold
NegligibleNums == {Num(1, -12), Num(10, -13), Num(1, -13)}

GeomRows ==
    {<<a, b, c>> : a \in SmallNums, b \in SmallNums, c \in SmallNums}
    \cup {<<a, b, c>> : a \in UnitNums, b \in UnitNums, c \in UnitNums}
    \cup {<<a, b, c>> : a \in UnitNums, b \in UnitNums, c \in NegligibleNums}

\* the controller as constructed, and two calls of generateData that
\* have not begun
GenInit ==
    /\ build \in Builds
    /\ scales = [xMin |-> 0, xMax |-> 10, yMin |-> 0, yMax |-> 10]
    /\ currentSeed = InitialSeed
    /\ genSeed = currentSeed
    /\ nRegens = 0
    /\ WEIGHT_STEPS = <<>>
    /\ stepIndex = -1
    /\ animTimer = Null
    /\ timers = {}
    /\ nextTimerId = 1
    /\ lineData = setBaselineLine(scales)
    /\ lineLabel = BaselineLabel
    /\ lastEvent = "init"
    /\ wasRunning = FALSE
    /\ loadedText = <<>>
    /\ stepsSinceLoad = -1
    /\ ui = MarkupUi(TRUE, TRUE, TRUE)
    /\ speedRange = DefaultSpeed
    /\ intervalOf = <<>>
    /\ runs \in [Runs -> {[pc |-> "idle", n |-> n, seed |-> seed,
                           t |-> Word(0, 0), i |-> 0, data |-> <<>>,
                           outcome |-> "none"] :
                              n \in GenSizes, seed \in GenSeeds}]

GenNext == \E r \in Runs : GenCall(r) \/ GenLoop(r)

GenSpec == GenInit /\ [][GenNext]_vars

\* regenBtn clicked over and over on the page as loaded, the datasets all
\* taken to span the same axes
SeedInit ==
    /\ Init
    /\ scales = [xMin |-> 0, xMax |-> 10, yMin |-> 0, yMax |-> 10]
    /\ ui = MarkupUi(TRUE, TRUE, TRUE)

SeedNext == Regenerate(scales) /\ UNCHANGED nRegens

SeedSpec == SeedInit /\ [][SeedNext]_vars

SetSpeed(v) ==
    /\ speedRange' = v
    /\ v # speedRange
    /\ History("speed")
    /\ stepsSinceLoad' = -1
    /\ UNCHANGED <<build, scales, currentSeed, nRegens, WEIGHT_STEPS,
                   stepIndex, animTimer, timers, intervalOf, nextTimerId,
                   lineData, lineLabel, ui, runs, genSeed>>

\* the texts loaded while the speed is the matter: none, and two rows
SpeedTexts == {<<>>, <<SlopedRow, VerticalRow>>}

SpeedInit ==
    /\ Init
    /\ build = "app.js"
    /\ scales = [xMin |-> 0, xMax |-> 10, yMin |-> 0, yMax |-> 10]
    /\ ui = MarkupUi(TRUE, TRUE, TRUE)

SpeedNext ==
    \/ \E v \in SpeedValues : SetSpeed(v)
    \/ \E txt \in SpeedTexts : LoadWeightsClick(txt)
    \/ StepClick
    \/ AnimateClick
    \/ \E h \in timers : TimerTick(h)
    \/ ResetClick

SpeedSpec == SpeedInit /\ [][SpeedNext]_vars

\* a running animation left to its timer: a text has been loaded, the
\* cursor stepped to any index, and animate clicked
AnimInit ==
    /\ build \in Builds
    /\ scales \in AxisBounds
    /\ currentSeed = InitialSeed
    /\ genSeed = currentSeed
    /\ nRegens = 0
    /\ loadedText \in {txt \in LoadTexts : Len(parseWeightsCsv(txt)) > 0}
    /\ WEIGHT_STEPS = parseWeightsCsv(loadedText)
    /\ stepIndex \in -1..(Len(WEIGHT_STEPS) - 1)
    /\ animTimer = 1
    /\ timers = {1}
    /\ nextTimerId = 2
    /\ lineData = IF stepIndex = -1 THEN setBaselineLine(scales)
                  ELSE setDecisionLineFromWeights(WEIGHT_STEPS[stepIndex + 1],
                                                  scales)
    /\ lineLabel = IF stepIndex = -1 THEN BaselineLabel ELSE DecisionLabel
    /\ lastEvent = "start"
    /\ wasRunning = FALSE
    /\ stepsSinceLoad = -1
    /\ ui = updateAnimStatus(WEIGHT_STEPS, stepIndex)
    /\ speedRange = DefaultSpeed
    /\ intervalOf = <<speed(DefaultSpeed)>>
    /\ runs = NoRuns

\* the host runs the callback of a live interval timer
AnimNext == \E h \in timers : TimerTick(h)

\* setInterval keeps calling back until the timer is cleared
AnimSpec == AnimInit /\ [][AnimNext]_vars /\ WF_vars(AnimNext)

ParseInit ==
    /\ build = "app.js"
    /\ scales = [xMin |-> 0, xMax |-> 10, yMin |-> 0, yMax |-> 10]
    /\ currentSeed = InitialSeed
    /\ genSeed = currentSeed
    /\ nRegens = 0
    /\ WEIGHT_STEPS = <<>>
    /\ stepIndex = -1
    /\ animTimer = Null
    /\ timers = {}
    /\ nextTimerId = 1
    /\ lineData = setBaselineLine(scales)
    /\ lineLabel = BaselineLabel
    /\ lastEvent = "init"
    /\ wasRunning = FALSE
    /\ loadedText \in ParseTexts
    /\ stepsSinceLoad = -1
    /\ ui = MarkupUi(TRUE, TRUE, TRUE)
    /\ speedRange = DefaultSpeed
    /\ intervalOf = <<>>
    /\ runs = NoRuns

\* the load handler run on the text in the textarea
ParseNext == LoadWeightsClick(loadedText)

ParseSpec == ParseInit /\ [][ParseNext]_vars

GeomInit ==
    /\ build \in Builds
    /\ scales \in AxisBounds
    /\ currentSeed = InitialSeed
    /\ genSeed = currentSeed
    /\ nRegens = 0
    /\ \E row \in GeomRows :
           /\ loadedText = <<row>>
           /\ WEIGHT_STEPS = parseWeightsCsv(<<row>>)
    /\ stepIndex = -1
    /\ animTimer = Null
    /\ timers = {}
    /\ nextTimerId = 1
    /\ lineData = setBaselineLine(scales)
    /\ lineLabel = BaselineLabel
    /\ lastEvent = "load"
    /\ wasRunning = FALSE
    /\ stepsSinceLoad = 0
    /\ ui = MarkupUi(TRUE, TRUE, TRUE)
    /\ speedRange = DefaultSpeed
    /\ intervalOf = <<>>
    /\ runs = NoRuns

GeomNext == StepClick

GeomSpec == GeomInit /\ [][GeomNext]_vars

----------------------------------------------------------------------------
(* Controller states of the design *)

Empty == Len(WEIGHT_STEPS) = 0

Running == animTimer # Null

Ready == Len(WEIGHT_STEPS) > 0 /\ animTimer = Null

\* the segment of the horizontal line x2 = 0 across the x axis of sc
HorizontalAtZero(sc) ==
    <<[x |-> [n |-> sc.xMin, d |-> 1], y |-> [n |-> 0, d |-> 1]],
      [x |-> [n |-> sc.xMax, d |-> 1], y |-> [n |-> 0, d |-> 1]]>>

\* the line the cursor i stands for on the sequence ws and the scales sc
LineOfCursor(ws, i, sc) ==
    IF i = -1 THEN HorizontalAtZero(sc)
    ELSE setDecisionLineFromWeights(ws[i + 1], sc)

----------------------------------------------------------------------------
(* Claims *)

\* C1: in every reachable state the cursor is an integer with
\* -1 <= cursor <= length(WEIGHT_STEPS) - 1, hence -1 when the sequence is
\* empty.
C1_CursorInRange ==
    /\ stepIndex \in -1 .. Len(WEIGHT_STEPS) - 1
    /\ Empty => stepIndex = -1

\* C1 witness: a timer tick has brought the cursor to the last index of a
\* two-step sequence.
C1_Witness ==
    /\ lastEvent = "tick"
    /\ Len(WEIGHT_STEPS) = 2
    /\ stepIndex = Len(WEIGHT_STEPS) - 1

\* C2: at most one animation timer is live: the set of scheduled timers is
\* empty when animTimer is null and is exactly {animTimer} otherwise.
C2_OneTimer ==
    /\ timers = IF animTimer = Null THEN {} ELSE {animTimer}
    /\ Cardinality(timers) <= 1

\* C2 witness: a second timer has been started (after the first one was
\* cancelled) and is the only live one.
C2_Witness ==
    /\ animTimer = 2
    /\ timers = {2}
    /\ lastEvent = "tick"

\* C3: k calls of step() right after loading a non-empty sequence of length
\* L leave the cursor at min(k, L) - 1 and the line of that cursor on
\* display; the steps past the last index change nothing.
C3_StepsAfterLoad ==
    (stepsSinceLoad >= 0 /\ Len(WEIGHT_STEPS) > 0) =>
        /\ stepIndex = MinOf(stepsSinceLoad, Len(WEIGHT_STEPS)) - 1
        /\ lineData = LineOfCursor(WEIGHT_STEPS, stepIndex, scales)

\* C3 witness: two steps beyond the end of a two-step sequence.
C3_Witness ==
    /\ Len(WEIGHT_STEPS) = 2
    /\ stepsSinceLoad = Len(WEIGHT_STEPS) + 2
    /\ lastEvent = "stepAtEnd"
    /\ stepIndex = 1

\* C4: a load from any state stops the timer, replaces the sequence by the
\* parsed text, puts the cursor at -1 and shows the baseline; the state is
\* Empty iff the parsed sequence is empty and Ready otherwise.
C4_LoadSequence ==
    lastEvent = "load" =>
        /\ animTimer = Null
        /\ timers = {}
        /\ WEIGHT_STEPS = parseWeightsCsv(loadedText)
        /\ stepIndex = -1
        /\ lineData = HorizontalAtZero(scales)
        /\ lineLabel = BaselineLabel
        /\ Empty <=> Len(parseWeightsCsv(loadedText)) = 0
        /\ ~Empty => Ready

\* C4 witness: a load of a non-empty sequence while an animation was running.
C4_Witness ==
    /\ lastEvent = "load"
    /\ wasRunning
    /\ Len(WEIGHT_STEPS) = 1
    /\ Ready

\* C5: reset() leaves the timer stopped, the cursor at -1, the baseline
\* segment (xMin,0)-(xMax,0) of the current x axis on display, and the loaded
\* sequence as it was.
C5_Reset ==
    [][lastEvent' = "reset" =>
          /\ animTimer' = Null
          /\ timers' = {}
          /\ stepIndex' = -1
          /\ lineData' = HorizontalAtZero(scales)
          /\ scales' = scales
          /\ WEIGHT_STEPS' = WEIGHT_STEPS]_vars

\* C5 witness: a reset of a running animation of a loaded sequence.
C5_Witness ==
    /\ lastEvent = "reset"
    /\ wasRunning
    /\ Len(WEIGHT_STEPS) = 2
    /\ stepIndex = -1
    /\ animTimer = Null

\* C6: toggleAnimate while Running cancels the timer and leaves cursor,
\* sequence and line as they were; toggleAnimate in Ready starts exactly one
\* timer and does not move the cursor; with no timer scheduled only a step,
\* load, reset or regenerate moves the cursor.
C6_ToggleAnimate ==
    [][/\ lastEvent' = "pause" =>
              /\ Running
              /\ animTimer' = Null
              /\ timers' = {}
              /\ UNCHANGED <<stepIndex, WEIGHT_STEPS, lineData>>
       /\ lastEvent' = "start" =>
              /\ Ready
              /\ animTimer' # Null
              /\ timers' = {animTimer'}
              /\ Cardinality(timers') = Cardinality(timers) + 1
              /\ UNCHANGED <<stepIndex, WEIGHT_STEPS, lineData>>
       /\ (animTimer = Null /\ stepIndex' # stepIndex) =>
              lastEvent' \in {"step", "load", "reset", "regen"}]_vars

\* C6 witness: a pause after a tick has advanced the cursor.
C6_Witness ==
    /\ lastEvent = "pause"
    /\ stepIndex = 0
    /\ Ready

\* C7 (as stated): after any timer tick that leaves the cursor at the last
\* index the timer handle is null.
C7_AsStated ==
    (lastEvent \in {"tick", "tickStop"}
        /\ stepIndex = Len(WEIGHT_STEPS) - 1) => animTimer = Null

\* C7 (amended): a tick that finds the cursor below the last index advances
\* it by one and leaves the timer running, also when the cursor thereby
\* reaches the last index; a tick that finds the cursor at the last index
\* cancels the timer and leaves the cursor there.
C7_TickStopsAtEnd ==
    [][lastEvent' \in {"tick", "tickStop"} =>
          IF stepIndex = Len(WEIGHT_STEPS) - 1
          THEN /\ animTimer' = Null
               /\ timers' = {}
               /\ stepIndex' = stepIndex
          ELSE /\ stepIndex' = stepIndex + 1
               /\ animTimer' = animTimer
               /\ animTimer' # Null]_vars

\* C7 witness: a tick has cancelled the timer with the cursor at the last
\* index of a two-step sequence.
C7_Witness ==
    /\ lastEvent = "tickStop"
    /\ Len(WEIGHT_STEPS) = 2
    /\ stepIndex = 1
    /\ animTimer = Null

\* C8 (as stated): a regenerate event changes neither the cursor nor the
\* loaded sequence.
C8_AsStated ==
    [][lastEvent' = "regen" =>
          /\ stepIndex' = stepIndex
          /\ WEIGHT_STEPS' = WEIGHT_STEPS]_vars

\* C8 (amended): a regenerate event never changes the loaded sequence; in
\* the variant part_000 it leaves the cursor and the timer as they were, in
\* app.js it cancels the timer and puts the cursor at -1.
C8_Regenerate ==
    [][lastEvent' = "regen" =>
          /\ WEIGHT_STEPS' = WEIGHT_STEPS
          /\ build = "part_000" =>
                 UNCHANGED <<stepIndex, animTimer, timers>>
          /\ build = "app.js" =>
                 /\ stepIndex' = -1
                 /\ animTimer' = Null
                 /\ timers' = {}]_vars

\* C8 witness: a regenerate of the variant part_000 during a running
\* animation with the cursor on a step.
C8_Witness ==
    /\ lastEvent = "regen"
    /\ build = "part_000"
    /\ stepIndex = 1
    /\ Running

\* C9: the line on display is the line of the cursor on the current axis
\* bounds: the baseline at cursor -1, else the boundary of
\* WEIGHT_STEPS[cursor].
C9_LineMatchesCursor ==
    lineData = LineOfCursor(WEIGHT_STEPS, stepIndex, scales)

\* C9 witness: after a regenerate the boundary of the current step is on
\* display on the new bounds.
C9_Witness ==
    /\ lastEvent = "regen"
    /\ stepIndex >= 0
    /\ lineData # <<>>
    /\ lineData[1].x = [n |-> scales.xMin, d |-> 1]
    /\ lineData[1].y # [n |-> 0, d |-> 1]

\* |v| > 1e-12, in units of 1e-13 for the small magnitudes
ExceedsEps(v) ==
    /\ v.m # 0
    /\ \/ v.e >= 0
       \/ Abs(v.m) * Pow10(v.e + 13) > 10

\* the mantissa of v at the exponent e0 <= v.e
Scaled(v, e0) == v.m * Pow10(v.e - e0)

\* w0 + w1 * (xn/xd) + w2 * (yn/yd) = 0
OnBoundary(w, px, py) ==
    LET e0 == MinOf(w.w0.e, MinOf(w.w1.e, w.w2.e))
    IN  Scaled(w.w0, e0) * px.d * py.d
            + Scaled(w.w1, e0) * px.n * py.d
            + Scaled(w.w2, e0) * py.n * px.d = 0

\* w0 + w1 * (xn/xd) = 0
OnVertical(w, px) ==
    LET e0 == MinOf(w.w0.e, w.w1.e)
    IN  Scaled(w.w0, e0) * px.d + Scaled(w.w1, e0) * px.n = 0

IntPoint(a, b) == [x |-> [n |-> a, d |-> 1], y |-> [n |-> b, d |-> 1]]

\* C10: the geometry picks its case in priority order: |w2| > 1e-12 gives the
\* points of the line at x = xMin and x = xMax whatever w1 is; otherwise
\* |w1| > 1e-12 gives the vertical segment x = -w0/w1 from yMin to yMax;
\* otherwise no points.  On bounds 0,10,0,10: (0,0,1) gives (0,0)-(10,0),
\* (-2,1,0) gives (2,0)-(2,10), (0,0,0) gives no points.
C10_GeometryCases ==
    lastEvent = "step" =>
        LET w == WEIGHT_STEPS[stepIndex + 1]
            unit == scales = [xMin |-> 0, xMax |-> 10, yMin |-> 0, yMax |-> 10]
        IN  /\ IF ExceedsEps(w.w2)
               THEN /\ Len(lineData) = 2
                    /\ lineData[1].x = [n |-> scales.xMin, d |-> 1]
                    /\ lineData[2].x = [n |-> scales.xMax, d |-> 1]
                    /\ lineData[1].y.d > 0 /\ lineData[2].y.d > 0
                    /\ OnBoundary(w, lineData[1].x, lineData[1].y)
                    /\ OnBoundary(w, lineData[2].x, lineData[2].y)
               ELSE IF ExceedsEps(w.w1)
                    THEN /\ Len(lineData) = 2
                         /\ lineData[1].x = lineData[2].x
                         /\ lineData[1].x.d > 0
                         /\ OnVertical(w, lineData[1].x)
                         /\ lineData[1].y = [n |-> scales.yMin, d |-> 1]
                         /\ lineData[2].y = [n |-> scales.yMax, d |-> 1]
                    ELSE lineData = <<>>
            /\ (unit /\ w = [w0 |-> Num(0, 0), w1 |-> Num(0, 0),
                             w2 |-> Num(1, 0)])
                   => lineData = <<IntPoint(0, 0), IntPoint(10, 0)>>
            /\ (unit /\ w = [w0 |-> Num(-2, 0), w1 |-> Num(1, 0),
                             w2 |-> Num(0, 0)])
                   => lineData = <<IntPoint(2, 0), IntPoint(2, 10)>>
            /\ (unit /\ w = [w0 |-> Num(0, 0), w1 |-> Num(0, 0),
                             w2 |-> Num(0, 0)])
                   => lineData = <<>>

\* C10 witness: a step onto a triple whose w1 and w2 both exceed the
\* threshold, w2 only just, shows the sloped line.
C10_Witness ==
    /\ lastEvent = "step"
    /\ WEIGHT_STEPS[1].w2 = Num(-11, -13)
    /\ WEIGHT_STEPS[1].w1 = Num(10, -12)
    /\ Len(lineData) = 2
    /\ lineData[1].x # lineData[2].x

\* the line is blank
IsBlank(l) == l = <<>>

\* the names among w0, w1, w2 that the text of the field holds, in any case
NamesIn(f) ==
    CASE f.tok \in {"w0", "w1", "w2"} -> {f.tok}
      [] f.tok \in {"w0 w1 w2", "W0 W1 W2"} -> {"w0", "w1", "w2"}
      [] f.tok = "w0 w1" -> {"w0", "w1"}
      [] OTHER -> {}

IsHeader(l) == UNION {NamesIn(l[i]) : i \in 1..Len(l)} = {"w0", "w1", "w2"}

\* the field parses to a finite number
ParsesFinite(f) == f.tok \in {"num", "numjunk"}

IsKept(l) == Len(l) >= 3 /\ \A i \in 1..3 : ParsesFinite(l[i])

TripleOf(l) ==
    [w0 |-> Num(l[1].m, l[1].e), w1 |-> Num(l[2].m, l[2].e),
     w2 |-> Num(l[3].m, l[3].e)]

\* the triples of the kept lines of the text, in order
KeptTriples(text) ==
    LET nonBlank == SelectSeq(text, LAMBDA l : ~IsBlank(l))
        rows == IF nonBlank # <<>> /\ IsHeader(nonBlank[1])
                THEN Tail(nonBlank) ELSE nonBlank
        kept == SelectSeq(rows, IsKept)
    IN  [i \in 1..Len(kept) |-> TripleOf(kept[i])]

\* C11: the parser returns, in input order, one triple for each non-blank
\* line that is kept: the first non-blank line is skipped iff it holds w0, w1
\* and w2 in any case; any other line is dropped iff it has fewer than 3
\* fields or one of its first three does not parse to a finite number; an
\* empty or all-blank text gives the empty sequence.
C11_ParserKeeps ==
    lastEvent = "load" =>
        /\ WEIGHT_STEPS = KeptTriples(loadedText)
        /\ (\A i \in 1..Len(loadedText) : IsBlank(loadedText[i]))
               => WEIGHT_STEPS = <<>>

\* C11 witness: header, row, malformed row, row with trailing text: two
\* triples, in order.
C11_Witness ==
    /\ lastEvent = "load"
    /\ loadedText = <<HeaderLine, SlopedRow, BadLine, JunkRow>>
    /\ WEIGHT_STEPS =
           <<[w0 |-> Num(-4, 0), w1 |-> Num(1, 0), w2 |-> Num(2, 0)],
             [w0 |-> Num(4, 0), w1 |-> Num(5, 0), w2 |-> Num(6, 0)]>>

----------------------------------------------------------------------------
(* Generator claims *)

Done(r) == runs[r].pc = "done"

RECURSIVE CountLabel(_, _)
CountLabel(data, y) ==
    IF data = <<>> THEN 0
    ELSE (IF data[1].y = y THEN 1 ELSE 0) + CountLabel(Tail(data), y)

ZerosFirst(data) ==
    \A j, k \in 1..Len(data) :
        data[j].y = 0 /\ data[k].y = 1 => j < k

\* C12 as stated: a returned dataset of n >= 0 points has floor(n/2) points
\* of label 0 and n - floor(n/2) of label 1, the label-0 points first
C12_AsStated ==
    \A r \in Runs :
        Done(r) /\ runs[r].n >= 0 =>
            /\ Len(runs[r].data) = runs[r].n
            /\ CountLabel(runs[r].data, 0) = runs[r].n \div 2
            /\ CountLabel(runs[r].data, 1) = runs[r].n - (runs[r].n \div 2)
            /\ ZerosFirst(runs[r].data)

\* C12: a returned dataset of n >= 0 points has n points, n - floor(n/2) of
\* label 0 and floor(n/2) of label 1, the label-0 points first
C12_LabelCounts ==
    \A r \in Runs :
        Done(r) /\ runs[r].n >= 0 =>
            /\ Len(runs[r].data) = runs[r].n
            /\ CountLabel(runs[r].data, 0) = runs[r].n - (runs[r].n \div 2)
            /\ CountLabel(runs[r].data, 1) = runs[r].n \div 2
            /\ ZerosFirst(runs[r].data)

C12_Witness ==
    /\ Done("A")
    /\ runs["A"].n = 3
    /\ runs["A"].data[1].y = 0
    /\ runs["A"].data[2].y = 0
    /\ runs["A"].data[3].y = 1

SameInputs == runs["A"].n = runs["B"].n /\ runs["A"].seed = runs["B"].seed

Started(r) == runs[r].pc # "idle"

\* C13: two calls with the same n and seed agree, wherever each of them is,
\* on every point both have produced, hold the same counter when they are
\* at the same index, and return the same sequence
C13_Deterministic ==
    SameInputs /\ Started("A") /\ Started("B") =>
        /\ \A j \in 1..MinOf(Len(runs["A"].data), Len(runs["B"].data)) :
               runs["A"].data[j] = runs["B"].data[j]
        /\ runs["A"].i = runs["B"].i => runs["A"].t = runs["B"].t
        /\ Done("A") /\ Done("B") => runs["A"].data = runs["B"].data

C13_Witness ==
    /\ SameInputs
    /\ runs["A"].seed = 42
    /\ Done("A")
    /\ Done("B")
    /\ Len(runs["B"].data) = 2
    /\ runs["A"].data[1].x1 = [u |-> Word(39393, 61308), v |-> Word(29379, 11146)]
    /\ runs["A"].data[1] # runs["A"].data[2]
    /\ runs["B"].data[2] = runs["A"].data[2]

\* C14 as stated: a call with a negative n ends in an error and returns no
\* dataset, a call with n = 0 returns the empty dataset
C14_AsStated ==
    \A r \in Runs :
        Done(r) =>
            /\ runs[r].n < 0 => runs[r].outcome = "error"
            /\ runs[r].n = 0 =>
                   runs[r].outcome = "returned" /\ runs[r].data = <<>>

----------------------------------------------------------------------------
(* Animation claims *)

\* the handler an event label belongs to
HandlerOf(ev) ==
    CASE ev \in {"step", "stepEmpty", "stepAtEnd"} -> "step"
      [] ev \in {"start", "pause", "animateEmpty"} -> "animate"
      [] ev \in {"tick", "tickStop"} -> "tick"
      [] OTHER -> ev

\* C15: a running animation left to its timer ends with the timer cancelled
\* and the cursor on the last index, and stays there
C15_AnimationFinishes ==
    <>[](animTimer = Null /\ timers = {}
         /\ stepIndex = Len(WEIGHT_STEPS) - 1)

C15_Witness ==
    /\ lastEvent = "tickStop"
    /\ wasRunning
    /\ animTimer = Null
    /\ timers = {}
    /\ Len(WEIGHT_STEPS) = 2
    /\ stepIndex = 1

\* C16: a timer exists only while a sequence is loaded, and a step or
\* animate click on the empty sequence leaves cursor, timer and line alone
C16_EmptyIsInert ==
    /\ [](animTimer # Null \/ timers # {} => Len(WEIGHT_STEPS) > 0)
    /\ [][Empty /\ HandlerOf(lastEvent') \in {"step", "animate"} =>
             /\ stepIndex = -1
             /\ stepIndex' = -1
             /\ animTimer' = Null
             /\ timers' = {}
             /\ nextTimerId' = nextTimerId
             /\ lineData' = lineData
             /\ WEIGHT_STEPS' = WEIGHT_STEPS]_vars

C16_Witness ==
    /\ lastEvent = "animateEmpty"
    /\ Empty
    /\ nextTimerId = 2
    /\ animTimer = Null
    /\ timers = {}
    /\ stepIndex = -1

\* C17: every event leaves the cursor, moves it up by one onto the line of
\* the new index, or (load, reset, regenerate of app.js) puts it back to
\* -1; a step click during a running animation leaves the timer running
C17_CursorMoves ==
    [][/\ \/ stepIndex' = stepIndex
           \/ /\ stepIndex' = stepIndex + 1
              /\ stepIndex' < Len(WEIGHT_STEPS)
              /\ WEIGHT_STEPS' = WEIGHT_STEPS
              /\ lineData' = LineOfCursor(WEIGHT_STEPS, stepIndex', scales)
           \/ /\ stepIndex' = -1
              /\ \/ HandlerOf(lastEvent') \in {"load", "reset"}
                 \/ HandlerOf(lastEvent') = "regen" /\ build = "app.js"
       /\ HandlerOf(lastEvent') = "step" =>
              animTimer' = animTimer /\ timers' = timers]_vars

C17_Witness ==
    /\ lastEvent = "step"
    /\ wasRunning
    /\ Running
    /\ timers = {animTimer}
    /\ stepIndex = 1

Degenerate(w) == ~ExceedsEps(w.w1) /\ ~ExceedsEps(w.w2)

\* C18: a step or tick below the last index moves the cursor up by one
\* whatever the triple there, leaves the timer as it was, and draws the
\* empty segment exactly when the triple is degenerate
C18_DegenerateStep ==
    [][HandlerOf(lastEvent') \in {"step", "tick"}
       /\ stepIndex < Len(WEIGHT_STEPS) - 1 =>
           /\ stepIndex' = stepIndex + 1
           /\ animTimer' = animTimer
           /\ timers' = timers
           /\ WEIGHT_STEPS' = WEIGHT_STEPS
           /\ Degenerate(WEIGHT_STEPS[stepIndex' + 1]) => lineData' = <<>>
           /\ ~Degenerate(WEIGHT_STEPS[stepIndex' + 1]) => Len(lineData') = 2]_vars

C18_Witness ==
    /\ lastEvent = "tick"
    /\ wasRunning
    /\ Running
    /\ stepIndex = 1
    /\ Degenerate(WEIGHT_STEPS[1])
    /\ ~Degenerate(WEIGHT_STEPS[2])
    /\ Len(lineData) = 2

\* the interval the host is to be given for each value of the speed input
ExpectedInterval(v) ==
    CASE v = Num(300, 0) -> 300
      [] v = Num(100, 0) -> 100
      [] v = Num(2507, -1) -> 250
      [] v = Num(0, 0) -> 300
      [] v = Str("abc") -> 300

\* C19: a timer is created with the interval read from the speed input at
\* that click (300 for an unparsable or zero value), no timer's interval
\* ever changes, and a change of the speed input touches no timer
C19_IntervalFixed ==
    [][/\ lastEvent' = "start" =>
              /\ animTimer' \notin timers
              /\ timers' = timers \cup {animTimer'}
              /\ intervalOf'[animTimer'] = ExpectedInterval(speedRange)
       /\ lastEvent' # "start" => timers' \subseteq timers
       /\ \A h \in DOMAIN intervalOf :
              h \in DOMAIN intervalOf' /\ intervalOf'[h] = intervalOf[h]
       /\ speedRange' # speedRange =>
              animTimer' = animTimer /\ timers' = timers]_vars

C19_Witness ==
    /\ lastEvent = "speed"
    /\ wasRunning
    /\ Running
    /\ speedRange = Num(2507, -1)
    /\ intervalOf = <<100, 300>>
    /\ timers = {2}

\* the handlers that end in updateAnimStatus()
StatusUpdated ==
    lastEvent \in {"load", "step", "tick", "tickStop", "pause", "reset", "regen"}

FlagsMatch ==
    /\ ui.animateDisabled <=> Empty
    /\ ui.resetDisabled <=> Empty
    /\ ui.stepDisabled <=> (Empty \/ stepIndex >= Len(WEIGHT_STEPS) - 1)

\* the readout names a position
ShowsPosition == ui.status.text = "steps loaded, at"

\* C20 as stated: after a handler that updates the status the flags match
\* the state and the readout gives the number of steps and the position
\* cursor + 1
C20_AsStated ==
    StatusUpdated =>
        /\ FlagsMatch
        /\ ui.status.loaded = Len(WEIGHT_STEPS)
        /\ ShowsPosition
        /\ ui.status.at = stepIndex + 1

\* C20: after a handler that updates the status the flags match the state,
\* the readout gives the number of steps and, for a non-empty sequence
\* only, the position cursor + 1
C20_Affordances ==
    StatusUpdated =>
        /\ FlagsMatch
        /\ ui.status.loaded = Len(WEIGHT_STEPS)
        /\ ShowsPosition <=> ~Empty
        /\ ~Empty => ui.status.at = stepIndex + 1

C20_Witness ==
    /\ lastEvent = "tick"
    /\ Len(WEIGHT_STEPS) = 2
    /\ stepIndex = 1
    /\ ui.stepDisabled
    /\ ~ui.animateDisabled
    /\ ~ui.resetDisabled
    /\ ui.status.loaded = 2
    /\ ui.status.at = 2

----------------------------------------------------------------------------
(* Numeric claims *)

\* C21 as stated: the counter of the generator of every call under way is
\* a 32-bit unsigned integer, both halves below 2^16
C21_AsStated ==
    \A r \in Runs :
        Started(r) =>
            /\ runs[r].t.h \in 0..(Limb - 1)
            /\ runs[r].t.l \in 0..(Limb - 1)

\* (s * 9301 + 49297) mod 233280 by way of s * 9301 = (s * 93) * 100 + s
ExpectedSeed(s) == ((((s * 93) % LcgMod) * 100) + s + LcgInc) % LcgMod

\* C22: every regenerate takes the stored seed s to (s * 9301 + 49297) mod
\* 233280, the sum below 2^32; the stored seed stays in 0..233279, and the
\* seed given to the generator is the stored one, or 1 when that is 0
C22_SeedSequence ==
    /\ [](/\ currentSeed \in 0..(LcgMod - 1)
          /\ genSeed # 0
          /\ genSeed = IF currentSeed = 0 THEN 1 ELSE currentSeed)
    /\ [][lastEvent' = "regen" =>
             /\ currentSeed' = ExpectedSeed(currentSeed)
             /\ LcgProduct(currentSeed).h < Limb
             /\ LcgProduct(currentSeed).l < Limb]_vars

C22_Witness ==
    /\ lastEvent = "regen"
    /\ currentSeed = 0
    /\ genSeed = 1

====
